---- MODULE Spec2Model ----
(***************************************************************************)
(* Model of the extraction pipeline of src/main.py (class TangoScraper):   *)
(* _extract_number, _extract_broadcaster_data, get_live_broadcasters and   *)
(* get_broadcaster_profile.  Python strings are sequences of one-character *)
(* strings, so that strip(), lower(), startswith(), substring containment  *)
(* and the regular expression [\d.]+ are computed rather than assumed.     *)
(***************************************************************************)
EXTENDS Integers, Sequences, FiniteSets, TLC

VARIABLES pc, op, arg, ret_number, ret_broadcaster, ret_live, ret_profile

vars == <<pc, op, arg, ret_number, ret_broadcaster, ret_live, ret_profile>>

\* ------------------------------------------------------------------ bounds

\* Longest enumerated input text of _extract_number.
MaxLen == 3

\* Most descendant elements enumerated inside one card fragment.
MaxElems == 3

\* Most card fragments enumerated on one listing page.
MaxCards == 3

\* Most elements enumerated on one profile page.
MaxProfileElems == 3

\* ------------------------------------------------------------------ Python values

\* Python's None.
None == [kind |-> "None"]

\* A Python str in a position that may also hold None (attribute values).
Str(s) == [kind |-> "str", s |-> s]

\* All sequences over S of length at most n.
SeqsUpTo(S, n) == UNION {[1..k -> S] : k \in 0..n}

\* ------------------------------------------------------------------ str methods

UpperCase == <<"A", "B", "C", "D", "E", "F", "G", "H", "I", "J", "K", "L", "M",
               "N", "O", "P", "Q", "R", "S", "T", "U", "V", "W", "X", "Y", "Z">>

LowerCase == <<"a", "b", "c", "d", "e", "f", "g", "h", "i", "j", "k", "l", "m",
               "n", "o", "p", "q", "r", "s", "t", "u", "v", "w", "x", "y", "z">>

\* str.lower() of one character.
LowerChar(c) ==
    IF \E i \in 1..26 : UpperCase[i] = c
    THEN LowerCase[CHOOSE i \in 1..26 : UpperCase[i] = c]
    ELSE c

\* str.lower()
lower(s) == [i \in 1..Len(s) |-> LowerChar(s[i])]

\* sub in s
contains(s, sub) ==
    \E i \in 1..(Len(s) - Len(sub) + 1) : SubSeq(s, i, i + Len(sub) - 1) = sub

\* s.startswith(prefix)
startswith(s, prefix) ==
    /\ Len(s) >= Len(prefix)
    /\ SubSeq(s, 1, Len(prefix)) = prefix

IsSpace(c) == c = " "

\* str.strip(): leading and trailing whitespace removed.
strip(s) ==
    LET keep == {i \in 1..Len(s) : ~IsSpace(s[i])}
    IN  IF keep = {} THEN <<>>
        ELSE LET lo == CHOOSE i \in keep : \A j \in keep : i <= j
                 hi == CHOOSE i \in keep : \A j \in keep : j <= i
             IN  SubSeq(s, lo, hi)

\* ------------------------------------------------------------------ _extract_number

Digit == {"0", "1", "2", "3", "4", "5", "6", "7", "8", "9"}

DigitVal(c) ==
    CASE c = "0" -> 0 [] c = "1" -> 1 [] c = "2" -> 2 [] c = "3" -> 3
      [] c = "4" -> 4 [] c = "5" -> 5 [] c = "6" -> 6 [] c = "7" -> 7
      [] c = "8" -> 8 [] c = "9" -> 9

\* The character class [\d.] of the regular expression.
IsNumChar(c) == c \in Digit \/ c = "."

\* re.findall(r'[\d.]+', text): the maximal runs of [\d.] characters, left to
\* right.
RECURSIVE RunsFrom(_, _)
RunsFrom(text, i) ==
    IF i > Len(text) THEN <<>>
    ELSE IF ~IsNumChar(text[i]) THEN RunsFrom(text, i + 1)
    ELSE LET stops == {j \in i..Len(text) : ~IsNumChar(text[j])}
             last  == IF stops = {} THEN Len(text)
                      ELSE (CHOOSE j \in stops : \A k \in stops : j <= k) - 1
         IN  <<SubSeq(text, i, last)>> \o RunsFrom(text, last + 1)

findall(text) == RunsFrom(text, 1)

Pow10(n) == CASE n = 0 -> 1 [] n = 1 -> 10 [] n = 2 -> 100 [] n = 3 -> 1000
              [] n = 4 -> 10000 [] n = 5 -> 100000 [] n = 6 -> 1000000
              [] OTHER -> 10000000

\* The digits of a run as one integer, decimal point ignored.
RECURSIVE Mantissa(_)
Mantissa(run) ==
    IF run = <<>> THEN 0
    ELSE LET c == run[Len(run)]
             r == SubSeq(run, 1, Len(run) - 1)
         IN  IF c = "." THEN Mantissa(r) ELSE Mantissa(r) * 10 + DigitVal(c)

\* float(run) for a run of [\d.] characters: ValueError unless the run has at
\* least one digit and at most one decimal point; otherwise the value
\* mant / 10^scale.
float(run) ==
    LET dots   == {i \in 1..Len(run) : run[i] = "."}
        digits == {i \in 1..Len(run) : run[i] \in Digit}
    IN  IF Cardinality(dots) > 1 \/ digits = {}
        THEN [raised |-> TRUE, mant |-> 0, scale |-> 0]
        ELSE [raised |-> FALSE,
              mant   |-> Mantissa(run),
              scale  |-> IF dots = {} THEN 0
                         ELSE Len(run) - (CHOOSE i \in dots : TRUE)]

\* What a call or a try block does: returns a value, raises, or (a block)
\* runs off its end.
Returned(v) == [kind |-> "return", value |-> v]

Raised == [kind |-> "raise", value |-> 0]

FellThrough == [kind |-> "fallthrough", value |-> 0]

\* int(num) of the non-negative value mant / 10^scale: truncation.
int(mant, scale) == mant \div Pow10(scale)

\* Mutant: 'm' is looked for before 'k'.
ScaleBySuffix_m_first(num, text) ==
    IF num.raised THEN Raised
    ELSE IF contains(lower(text), <<"m">>)
         THEN Returned(int(num.mant * 1000000, num.scale))
    ELSE IF contains(lower(text), <<"k">>)
         THEN Returned(int(num.mant * 1000, num.scale))
    ELSE Returned(int(num.mant, num.scale))

\* Lines 100-104: num scaled by the suffix found in the whole text, then
\* int(num); float()'s ValueError passes through.
ScaleBySuffix(num, text) ==
    IF num.raised THEN Raised
    ELSE IF contains(lower(text), <<"k">>)
         THEN Returned(int(num.mant * 1000, num.scale))
    ELSE IF contains(lower(text), <<"m">>)
         THEN Returned(int(num.mant * 1000000, num.scale))
    ELSE Returned(int(num.mant, num.scale))

\* Lines 98-104: "if numbers:" on the result of findall.
IfNumbers(numbers, text) ==
    IF numbers # <<>> THEN ScaleBySuffix(float(numbers[1]), text)
    ELSE FellThrough

\* The try block of _extract_number.
ExtractNumberTry(text) == IfNumbers(findall(text), text)

\* Mutant: the except clause does not cover float()'s ValueError.
ExceptPassReturn0_narrow(body) ==
    IF body.kind = "fallthrough" THEN Returned(0) ELSE body

\* "except: pass" and "return 0" after a try block.
ExceptPassReturn0(body) ==
    IF body.kind = "return" THEN body ELSE Returned(0)

\* _extract_number(text)
_extract_number(text) == ExceptPassReturn0(ExtractNumberTry(text))

\* "except Exception as e: ...; return value" after a try block.
ExceptReturn(body, value) ==
    IF body.kind = "raise" THEN Returned(value) ELSE body

\* ------------------------------------------------------------------ inputs of _extract_number

NumAlphabet == {"0", "1", "2", ".", "k", "K", "m", "M", "-", "v"}

T_1_2K == <<"1", ".", "2", "K">>
T_2M == <<"2", "M">>
T_500 == <<"5", "0", "0">>
T_no_numbers == <<"n", "o", " ", "n", "u", "m", "b", "e", "r", "s", " ", "h", "e", "r", "e">>
T_1_5K_followers == <<"1", ".", "5", "K", " ", "f", "o", "l", "l", "o", "w", "e", "r", "s">>
T_300_following == <<"3", "0", "0", " ", "f", "o", "l", "l", "o", "w", "i", "n", "g">>
T_both == <<"7", " ", "F", "o", "l", "l", "o", "w", "e", "r", "s", " ", "3", " ", "F", "o", "l", "l", "o", "w", "i", "n", "g">>
T_FOLLOWING == <<"9", "K", " ", "F", "O", "L", "L", "O", "W", "I", "N", "G">>
T_posts == <<"1", "2", " ", "p", "o", "s", "t", "s">>
T_k_and_m == <<"3", " ", "k", "m">>
T_1_2_3 == <<"1", ".", "2", ".", "3">>
T_minus_5 == <<"-", "5">>

ExampleTexts == {T_1_2K, T_2M, T_500, T_no_numbers, T_1_5K_followers,
                 T_300_following, T_both, T_FOLLOWING, T_posts, T_k_and_m,
                 T_1_2_3, T_minus_5}

NumberTexts == SeqsUpTo(NumAlphabet, MaxLen) \cup ExampleTexts

\* ------------------------------------------------------------------ parsed HTML

\* A parsed element: its tag, its class tokens, its .text, and the attributes
\* the scraper reads (None when the attribute is missing).
Elem(tag, classes, text, href, data_href, src) ==
    [tag |-> tag, classes |-> classes, text |-> text,
     href |-> href, data_href |-> data_href, src |-> src]

\* Tag.get(name)
get(elem, name) ==
    CASE name = "href" -> elem.href
      [] name = "data-href" -> elem.data_href
      [] name = "src" -> elem.src

\* The arguments of find / find_all: tag names, optionally class_ tokens,
\* optionally an attribute that must be present.
ByTag(tags) == [tags |-> tags, any_class |-> TRUE, classes |-> {}, attr |-> ""]

ByCue(tags, classes) ==
    [tags |-> tags, any_class |-> FALSE, classes |-> classes, attr |-> ""]

ByAttr(tags, attr) ==
    [tags |-> tags, any_class |-> TRUE, classes |-> {}, attr |-> attr]

\* Whether an element matches the arguments: one of the tags, one of the
\* class tokens among the element's, the attribute present.
Matches(elem, cue) ==
    /\ elem.tag \in cue.tags
    /\ cue.any_class \/ elem.classes \cap cue.classes # {}
    /\ cue.attr = "" \/ get(elem, cue.attr) # None

\* Tag.find(...) over the descendants in document order: the first one that
\* matches, or None.
find(elems, cue) ==
    LET hits == {i \in 1..Len(elems) : Matches(elems[i], cue)}
    IN  IF hits = {} THEN None
        ELSE elems[CHOOSE i \in hits : \A j \in hits : i <= j]

\* Tag.find_all(...): every match, in document order.
find_all(elems, cue) == SelectSeq(elems, LAMBDA e : Matches(e, cue))

\* A structural cue: one of the tags and one of the class tokens.
MatchesCue(elem, tags, classes) == Matches(elem, ByCue(tags, classes))

UsernameTags == {"span", "div", "h3"}
UsernameClasses == {"username", "broadcaster-name", "name"}
ViewersTags == {"span", "div"}
ViewersClasses == {"viewers", "viewer-count", "live-count"}
TitleTags == {"span", "div", "p"}
TitleClasses == {"title", "stream-title", "description"}
CardClasses == {"broadcaster-card", "live-stream-card", "stream-item"}
StatTags == {"span", "div"}
StatClasses == {"stat", "count", "number"}
BioTags == {"div", "p"}
BioClasses == {"bio", "description", "about"}
AvatarClasses == {"profile-pic", "avatar", "profile-image"}

Unknown == <<"U", "n", "k", "n", "o", "w", "n">>

Origin == <<"h", "t", "t", "p", "s", ":", "/", "/", "w", "w", "w", ".", "t", "a", "n", "g", "o", ".", "m", "e">>

\* ------------------------------------------------------------------ _extract_broadcaster_data

\* Mutant: the origin is prepended to every link, relative or not.
profile_url_always_prefixed(href) ==
    IF href # None /\ href.s # <<>> THEN Str(Origin \o href.s) ELSE href

\* f"https://www.tango.me{href}" if href and href.startswith('/') else href
profile_url(href) ==
    IF href # None /\ href.s # <<>> /\ startswith(href.s, <<"/">>)
    THEN Str(Origin \o href.s)
    ELSE href

\* a or b, for attribute values: a when it is neither None nor "".
or(a, b) == IF a # None /\ a.s # <<>> THEN a ELSE b

\* elem.text.strip() if elem else default
StripTextOr(elem, default) ==
    IF elem # None THEN strip(elem.text) ELSE default

\* elem.text if elem else default
TextOr(elem, default) == IF elem # None THEN elem.text ELSE default

\* elem.get(name) if elem else None
GetOr(elem, name) == IF elem # None THEN get(elem, name) ELSE None

\* a or b, for elements: a Tag is truthy, None is not.
OrElem(a, b) == IF a # None THEN a ELSE b

\* Lines 79-81: the key profile_url is set only when a link element was found.
WithProfileUrl(data, link_elem) ==
    IF link_elem # None
    THEN data @@ ("profile_url" :>
                    profile_url(or(get(link_elem, "href"),
                                   get(link_elem, "data-href"))))
    ELSE data

\* The dict built by the try block for a fragment whose probing does not raise.
BroadcasterDict(element) ==
    WithProfileUrl(
        [username      |-> StripTextOr(find(element.elems,
                                            ByCue(UsernameTags, UsernameClasses)),
                                       Unknown),
         viewers       |-> _extract_number(
                               TextOr(find(element.elems,
                                           ByCue(ViewersTags, ViewersClasses)),
                                      <<"0">>)).value,
         profile_image |-> GetOr(find(element.elems, ByTag({"img"})), "src"),
         title         |-> StripTextOr(find(element.elems,
                                            ByCue(TitleTags, TitleClasses)),
                                       <<>>),
         timestamp     |-> "now",
         is_live       |-> TRUE],
        OrElem(find(element.elems, ByTag({"a"})),
               find(element.elems, ByAttr({"div", "span"}, "data-href"))))

\* Line 87: return data if data['username'] != "Unknown" else None
ReturnUnlessUnknown(data) ==
    Returned(IF data.username # Unknown THEN data ELSE None)

\* The try block of _extract_broadcaster_data: an exception raised while
\* probing the fragment (element.fault), or the return statement.
ExtractBroadcasterTry(element) ==
    IF element.fault THEN Raised
    ELSE ReturnUnlessUnknown(BroadcasterDict(element))

\* Mutant: no try/except around the extraction of one fragment.
_extract_broadcaster_data_unguarded(element) == ExtractBroadcasterTry(element)

\* _extract_broadcaster_data(element): the try block, and "except Exception:
\* return None".
_extract_broadcaster_data(element) ==
    ExceptReturn(ExtractBroadcasterTry(element), None)

\* ------------------------------------------------------------------ inputs of _extract_broadcaster_data

T_alice == <<" ", "a", "l", "i", "c", "e", " ">>
T_bob == <<"b", "o", "b">>
T_slash_alice == <<"/", "a", "l", "i", "c", "e">>
T_abs == <<"h", "t", "t", "p", "s", ":", "/", "/", "t", ".", "c", "o", "/", "a">>
T_slash_d == <<"/", "d">>
T_img == <<"a", ".", "p", "n", "g">>
T_hi == <<"h", "i">>
T_blank == <<" ", " ">>

E_username_alice == Elem("span", {"username"}, T_alice, None, None, None)
E_name_blank == Elem("div", {"name", "row"}, T_blank, None, None, None)
E_name_Unknown == Elem("h3", {"broadcaster-name"}, Unknown, None, None, None)
E_p_username == Elem("p", {"username"}, T_bob, None, None, None)
E_viewers == Elem("span", {"viewers"}, T_1_2K, None, None, None)
E_img == Elem("img", {}, <<>>, None, None, Str(T_img))
E_img_nosrc == Elem("img", {}, <<>>, None, None, None)
E_title == Elem("p", {"title"}, T_hi, None, None, None)
E_a_relative == Elem("a", {}, <<>>, Str(T_slash_alice), None, None)
E_a_absolute == Elem("a", {}, <<>>, Str(T_abs), None, None)
E_a_nohref == Elem("a", {}, <<>>, None, None, None)
E_a_empty_href == Elem("a", {}, <<>>, Str(<<>>), None, None)
E_div_data_href == Elem("div", {}, <<>>, None, Str(T_slash_d), None)

CardElems == {E_username_alice, E_name_blank, E_name_Unknown, E_p_username,
              E_viewers, E_img, E_img_nosrc, E_title, E_a_relative,
              E_a_absolute, E_a_nohref, E_a_empty_href, E_div_data_href}

\* A card fragment of the listing page: the element itself (tag, classes), its
\* descendants in document order, and whether probing it raises.
Fragment(tag, classes, elems, fault) ==
    [tag |-> tag, classes |-> classes, elems |-> elems, fault |-> fault]

Fragments ==
    {Fragment("div", {"broadcaster-card"}, elems, fault) :
        elems \in SeqsUpTo(CardElems, MaxElems), fault \in BOOLEAN}

\* ------------------------------------------------------------------ fetching

\* What session.get(url, timeout=10) followed by raise_for_status() does: the
\* page arrives, or one of them raises.
FetchFailures == {"timeout", "connection_error", "http_error"}

\* The fetch of a try block: raises unless the response is there.
FetchRaises(fetch) == fetch \in FetchFailures

\* ------------------------------------------------------------------ get_live_broadcasters

\* Lines 47-48: the records that are truthy, appended in order.
AppendTruthy(results) ==
    [i \in 1..Len(SelectSeq(results, LAMBDA d : d.value # None)) |->
        SelectSeq(results, LAMBDA d : d.value # None)[i].value]

\* The outcome of the for loop, from the outcome of each extraction: an
\* exception out of an extraction leaves the loop.
LoopOutcome(results) ==
    IF \E i \in 1..Len(results) : results[i].kind = "raise"
    THEN Raised
    ELSE Returned(AppendTruthy(results))

\* The for loop over broadcaster_elements: the extraction of each element, in
\* document order.
LiveLoop(broadcaster_elements) ==
    LoopOutcome([i \in 1..Len(broadcaster_elements) |->
                    _extract_broadcaster_data(broadcaster_elements[i])])

\* The try block of get_live_broadcasters.
LiveBroadcastersTry(fetch, page) ==
    IF FetchRaises(fetch) THEN Raised
    ELSE LiveLoop(find_all(page, ByCue({"div"}, CardClasses)))

\* Mutant: only a timeout is caught; other failures leave the function.
get_live_broadcasters_timeout_only(fetch, page) ==
    IF fetch = "timeout"
    THEN ExceptReturn(LiveBroadcastersTry(fetch, page), <<>>)
    ELSE LiveBroadcastersTry(fetch, page)

\* get_live_broadcasters(): the try block, and "except Exception: return []".
get_live_broadcasters(fetch, page) ==
    ExceptReturn(LiveBroadcastersTry(fetch, page), <<>>)

\* ------------------------------------------------------------------ get_broadcaster_profile

\* Mutant: the second test is made whatever the first found (if / if).
SetFollowing(stat, profile_data) ==
    IF contains(lower(stat.text), <<"f", "o", "l", "l", "o", "w", "i", "n", "g">>)
    THEN [profile_data EXCEPT !.following = _extract_number(stat.text).value]
    ELSE profile_data

ClassifyStat_independent(stat, profile_data) ==
    SetFollowing(stat,
        IF contains(lower(stat.text), <<"f", "o", "l", "l", "o", "w", "e", "r">>)
        THEN [profile_data EXCEPT !.followers = _extract_number(stat.text).value]
        ELSE profile_data)

\* Lines 133-137: one stat element classified by its lower-cased text.
ClassifyStat(stat, profile_data) ==
    IF contains(lower(stat.text), <<"f", "o", "l", "l", "o", "w", "e", "r">>)
    THEN [profile_data EXCEPT !.followers = _extract_number(stat.text).value]
    ELSE IF contains(lower(stat.text), <<"f", "o", "l", "l", "o", "w", "i", "n", "g">>)
    THEN [profile_data EXCEPT !.following = _extract_number(stat.text).value]
    ELSE profile_data

\* The for loop over stats_elements.
RECURSIVE StatsLoop(_, _)
StatsLoop(stats_elements, profile_data) ==
    IF stats_elements = <<>> THEN profile_data
    ELSE StatsLoop(Tail(stats_elements),
                   ClassifyStat(Head(stats_elements), profile_data))

\* Mutant: the record is seeded with profile_image None.
ProfileDefaults_image_None(username) ==
    [username      |-> username,
     followers     |-> 0,
     following     |-> 0,
     total_streams |-> 0,
     bio           |-> <<>>,
     profile_image |-> None,
     is_verified   |-> FALSE,
     last_seen     |-> <<>>,
     timestamp     |-> "now"]

\* The literal profile_data is seeded with.
ProfileDefaults(username) ==
    [username      |-> username,
     followers     |-> 0,
     following     |-> 0,
     total_streams |-> 0,
     bio           |-> <<>>,
     profile_image |-> Str(<<>>),
     is_verified   |-> FALSE,
     last_seen     |-> <<>>,
     timestamp     |-> "now"]

\* Lines 141-142
SetBio(profile_data, bio_elem) ==
    IF bio_elem # None
    THEN [profile_data EXCEPT !.bio = strip(bio_elem.text)]
    ELSE profile_data

\* Lines 146-147
SetProfileImage(profile_data, img_elem) ==
    IF img_elem # None
    THEN [profile_data EXCEPT !.profile_image = get(img_elem, "src")]
    ELSE profile_data

\* The try block of get_broadcaster_profile.
BroadcasterProfileTry(username, fetch, page) ==
    IF FetchRaises(fetch) THEN Raised
    ELSE Returned(
           SetProfileImage(
             SetBio(StatsLoop(find_all(page, ByCue(StatTags, StatClasses)),
                              ProfileDefaults(username)),
                    find(page, ByCue(BioTags, BioClasses))),
             find(page, ByCue({"img"}, AvatarClasses))))

\* get_broadcaster_profile(username): the try block, and "except Exception:
\* return None".
get_broadcaster_profile(username, fetch, page) ==
    ExceptReturn(BroadcasterProfileTry(username, fetch, page), None)

\* ------------------------------------------------------------------ pages

F_alice == Fragment("div", {"broadcaster-card"},
                    <<E_username_alice, E_viewers, E_a_relative>>, FALSE)
F_bob == Fragment("div", {"live-stream-card", "col"},
                  <<Elem("h3", {"name"}, T_bob, None, None, None)>>, FALSE)
F_blank == Fragment("div", {"stream-item"}, <<E_name_blank, E_title>>, FALSE)
F_nameless == Fragment("div", {"stream-item"}, <<E_img, E_viewers>>, FALSE)
F_faulty == Fragment("div", {"broadcaster-card"}, <<E_username_alice>>, TRUE)
F_footer == Fragment("div", {"footer"}, <<E_username_alice>>, FALSE)
F_span == Fragment("span", {"stream-item"}, <<E_username_alice>>, FALSE)

PageElems == {F_alice, F_bob, F_blank, F_nameless, F_faulty, F_footer, F_span}

ListingPages == SeqsUpTo(PageElems, MaxCards)

T_bio == <<" ", "h", "i", " ">>

P_followers == Elem("span", {"stat"}, T_1_5K_followers, None, None, None)
P_following == Elem("div", {"count"}, T_300_following, None, None, None)
P_both == Elem("span", {"number"}, T_both, None, None, None)
P_FOLLOWING == Elem("div", {"stat", "big"}, T_FOLLOWING, None, None, None)
P_posts == Elem("span", {"stat"}, T_posts, None, None, None)
P_p_stat == Elem("p", {"stat"}, T_300_following, None, None, None)
P_bio == Elem("p", {"bio"}, T_bio, None, None, None)
P_avatar == Elem("img", {"avatar"}, <<>>, None, None, Str(T_img))
P_avatar_nosrc == Elem("img", {"profile-pic"}, <<>>, None, None, None)
P_img == Elem("img", {}, <<>>, None, None, Str(T_img))

ProfileElems == {P_followers, P_following, P_both, P_FOLLOWING, P_posts,
                 P_p_stat, P_bio, P_avatar, P_avatar_nosrc, P_img}

ProfilePages == SeqsUpTo(ProfileElems, MaxProfileElems)

Usernames == {<<"b", "o", "b">>, <<"a", "l", "i", "c", "e">>}

\* ------------------------------------------------------------------ state machine

\* The result variable of an operation that has not been called.
NoCall == [kind |-> "none"]

Init ==
    /\ pc = "idle"
    /\ op = "none"
    /\ arg = None
    /\ ret_number = NoCall
    /\ ret_broadcaster = NoCall
    /\ ret_live = NoCall
    /\ ret_profile = NoCall

\* A caller invokes TangoScraper._extract_number(text).
CallExtractNumber ==
    /\ pc = "idle"
    /\ \E text \in NumberTexts :
         /\ arg' = [text |-> text]
         /\ ret_number' = _extract_number(text)
    /\ op' = "_extract_number"
    /\ pc' = "done"
    /\ UNCHANGED <<ret_broadcaster, ret_live, ret_profile>>

\* A caller invokes TangoScraper._extract_broadcaster_data(element).
CallExtractBroadcasterData ==
    /\ pc = "idle"
    /\ \E element \in Fragments :
         /\ arg' = [element |-> element]
         /\ ret_broadcaster' = _extract_broadcaster_data(element)
    /\ op' = "_extract_broadcaster_data"
    /\ pc' = "done"
    /\ UNCHANGED <<ret_number, ret_live, ret_profile>>

\* A caller invokes TangoScraper.get_live_broadcasters(); the fetch fails, or
\* it succeeds with some listing page.
CallGetLiveBroadcasters ==
    /\ pc = "idle"
    /\ \/ \E fetch \in FetchFailures :
            /\ arg' = [fetch |-> fetch, page |-> <<>>]
            /\ ret_live' = get_live_broadcasters(fetch, <<>>)
       \/ \E page \in ListingPages :
            /\ arg' = [fetch |-> "ok", page |-> page]
            /\ ret_live' = get_live_broadcasters("ok", page)
    /\ op' = "get_live_broadcasters"
    /\ pc' = "done"
    /\ UNCHANGED <<ret_number, ret_broadcaster, ret_profile>>

\* A caller invokes TangoScraper.get_broadcaster_profile(username).
CallGetBroadcasterProfile ==
    /\ pc = "idle"
    /\ \E username \in Usernames :
         \/ \E fetch \in FetchFailures :
              /\ arg' = [username |-> username, fetch |-> fetch, page |-> <<>>]
              /\ ret_profile' = get_broadcaster_profile(username, fetch, <<>>)
         \/ \E page \in ProfilePages :
              /\ arg' = [username |-> username, fetch |-> "ok", page |-> page]
              /\ ret_profile' = get_broadcaster_profile(username, "ok", page)
    /\ op' = "get_broadcaster_profile"
    /\ pc' = "done"
    /\ UNCHANGED <<ret_number, ret_broadcaster, ret_live>>

\* The caller takes the result; every call is stateless and independent.
Return ==
    /\ pc = "done"
    /\ pc' = "idle"
    /\ op' = "none"
    /\ arg' = None
    /\ ret_number' = NoCall
    /\ ret_broadcaster' = NoCall
    /\ ret_live' = NoCall
    /\ ret_profile' = NoCall

Next ==
    \/ CallExtractNumber
    \/ CallExtractBroadcasterData
    \/ CallGetLiveBroadcasters
    \/ CallGetBroadcasterProfile
    \/ Return

Spec == Init /\ [][Next]_vars

\* ------------------------------------------------------------------ properties: _extract_number

Min(S) == CHOOSE i \in S : \A j \in S : i <= j

Max(S) == CHOOSE i \in S : \A j \in S : j <= i

\* 1,000 when the text has a k, else 1,000,000 when it has an m, else 1.
RefMultiplier(text) ==
    IF \E i \in 1..Len(text) : text[i] \in {"k", "K"} THEN 1000
    ELSE IF \E i \in 1..Len(text) : text[i] \in {"m", "M"} THEN 1000000
    ELSE 1

\* The decimal numeral run (at most one point) times mult, truncated; 0 when
\* the run has no digit.
RefScaled(run, mult) ==
    LET dots == {i \in 1..Len(run) : run[i] = "."}
    IN  IF \A i \in 1..Len(run) : run[i] = "." THEN 0
        ELSE IF dots = {} THEN Mantissa(run) * mult
        ELSE LET d  == Min(dots)
                 ip == SubSeq(run, 1, d - 1)
                 fp == SubSeq(run, d + 1, Len(run))
             IN  Mantissa(ip) * mult + (Mantissa(fp) * mult) \div Pow10(Len(fp))

\* The first contiguous run of digits with at most one decimal point: from the
\* first digit or point up to the next other character or second point.
RefRunOnePoint(text) ==
    LET starts == {i \in 1..Len(text) : IsNumChar(text[i])}
    IN  IF starts = {} THEN <<>>
        ELSE LET i0    == Min(starts)
                 stops == {j \in (i0 + 1)..Len(text) :
                              \/ ~IsNumChar(text[j])
                              \/ /\ text[j] = "."
                                 /\ \E k \in i0..(j - 1) : text[k] = "."}
                 last  == IF stops = {} THEN Len(text) ELSE Min(stops) - 1
             IN  SubSeq(text, i0, last)

\* The first maximal run of digits and points.
RefRunMaximal(text) ==
    LET starts == {i \in 1..Len(text) : IsNumChar(text[i])}
    IN  IF starts = {} THEN <<>>
        ELSE LET i0    == Min(starts)
                 stops == {j \in (i0 + 1)..Len(text) : ~IsNumChar(text[j])}
                 last  == IF stops = {} THEN Len(text) ELSE Min(stops) - 1
             IN  SubSeq(text, i0, last)

NumberOfPoints(run) == Cardinality({i \in 1..Len(run) : run[i] = "."})

\* C4, as stated: for every input text, _extract_number(text) is the first
\* contiguous run of digits with at most one decimal point (0 if none), times
\* 1,000 if the text has a k, else 1,000,000 if it has an m, truncated.
C4_EqualsReference ==
    op = "_extract_number" =>
        ret_number.value = RefScaled(RefRunOnePoint(arg.text), RefMultiplier(arg.text))

\* C4, amended: for every input text, _extract_number(text) is 0 when the
\* first maximal run of digits and decimal points has more than one point or
\* no digit (or there is no run), and otherwise that run times 1,000 if the
\* text has a k, else 1,000,000 if it has an m, truncated; with the values of
\* the documented examples.
C4_EqualsAmendedReference ==
    op = "_extract_number" =>
        /\ ret_number.kind = "return"
        /\ ret_number.value = IF NumberOfPoints(RefRunMaximal(arg.text)) > 1 THEN 0
                       ELSE RefScaled(RefRunMaximal(arg.text),
                                      RefMultiplier(arg.text))
        /\ arg.text = T_1_2K => ret_number.value = 1200
        /\ arg.text = T_2M => ret_number.value = 2000000
        /\ arg.text = T_500 => ret_number.value = 500
        /\ arg.text = <<>> => ret_number.value = 0
        /\ arg.text = T_no_numbers => ret_number.value = 0

\* C4 witness: a text with both letters and a number; k wins.
C4_Witness ==
    /\ op = "_extract_number"
    /\ arg.text = T_k_and_m
    /\ ret_number.value = 3000

\* No digit anywhere, or the first run of digits and points is not a numeral.
Unparseable(text) ==
    \/ \A i \in 1..Len(text) : text[i] \notin Digit
    \/ NumberOfPoints(RefRunMaximal(text)) > 1
    \/ \A i \in 1..Len(RefRunMaximal(text)) : RefRunMaximal(text)[i] = "."

\* C5: _extract_number never raises and returns an integer >= 0 for every
\* text; a text that cannot be parsed yields 0.
C5_TotalNonNegative ==
    op = "_extract_number" =>
        /\ ret_number.kind = "return"
        /\ ret_number.value \in Nat
        /\ Unparseable(arg.text) => ret_number.value = 0

\* C5 witness: a text with several decimal points yields 0.
C5_Witness ==
    /\ op = "_extract_number"
    /\ arg.text = T_1_2_3
    /\ ret_number = Returned(0)

\* ------------------------------------------------------------------ properties: cards

\* The username a fragment offers: the stripped text of its first username
\* cue, when probing it does not raise.
HasUsernameCue(F) ==
    \E i \in 1..Len(F.elems) : MatchesCue(F.elems[i], UsernameTags, UsernameClasses)

RefUsername(F) ==
    strip(F.elems[Min({i \in 1..Len(F.elems) :
                        MatchesCue(F.elems[i], UsernameTags, UsernameClasses)})].text)

\* A username can be resolved to a non-empty string other than "Unknown".
Resolvable(F) ==
    /\ ~F.fault
    /\ HasUsernameCue(F)
    /\ RefUsername(F) # <<>>
    /\ RefUsername(F) # Unknown

\* C1, as stated: _extract_broadcaster_data(F) is None if and only if no
\* username can be resolved from F to a non-empty string other than "Unknown".
C1_AbsentIffUnresolvable ==
    op = "_extract_broadcaster_data" =>
        /\ ret_broadcaster.kind = "return"
        /\ (ret_broadcaster.value = None) <=> ~Resolvable(arg.element)

IsCard(F) == F.tag = "div" /\ F.classes \cap CardClasses # {}

\* C2, as stated: on a successful fetch, get_live_broadcasters returns exactly
\* one record per card fragment with a resolvable username, in document order.
C2_ExactlyKInOrder ==
    (op = "get_live_broadcasters" /\ arg.fetch = "ok") =>
        LET cards == SelectSeq(arg.page, LAMBDA F : IsCard(F) /\ Resolvable(F))
        IN  /\ ret_live.kind = "return"
            /\ Len(ret_live.value) = Len(cards)
            /\ \A i \in 1..Len(cards) :
                   ret_live.value[i].username = RefUsername(cards[i])

\* C10: a fragment whose extraction raises is dropped and nothing else: the
\* call returns, and the records it returns for fragments with a resolvable
\* username are those of all such fragments, in document order.
C10_FragmentIsolation ==
    (op = "get_live_broadcasters" /\ arg.fetch = "ok") =>
        /\ ret_live.kind = "return"
        /\ LET cards == SelectSeq(arg.page, LAMBDA F : IsCard(F) /\ Resolvable(F))
               got   == SelectSeq(ret_live.value, LAMBDA d : d.username # <<>>)
           IN  /\ Len(got) = Len(cards)
               /\ \A i \in 1..Len(cards) : got[i].username = RefUsername(cards[i])
               /\ Len(ret_live.value)
                    <= Len(SelectSeq(arg.page, LAMBDA F : IsCard(F) /\ ~F.fault))

\* C10 witness: a raising fragment between two good ones; both survive.
C10_Witness ==
    /\ op = "get_live_broadcasters"
    /\ arg.page = <<F_alice, F_faulty, F_bob>>
    /\ Len(ret_live.value) = 2
    /\ ret_live.value[1].username = <<"a", "l", "i", "c", "e">>
    /\ ret_live.value[2].username = T_bob

\* C3: no exception leaves get_live_broadcasters or get_broadcaster_profile;
\* when the fetch fails the first returns the empty list and the second None.
C3_NoExceptionEscapes ==
    /\ op = "get_live_broadcasters" =>
          /\ ret_live.kind = "return"
          /\ arg.fetch \in FetchFailures => ret_live.value = <<>>
    /\ op = "get_broadcaster_profile" =>
          /\ ret_profile.kind = "return"
          /\ arg.fetch \in FetchFailures => ret_profile.value = None

\* C3 witness: a non-2xx status on the listing fetch, answered by [].
C3_Witness ==
    /\ op = "get_live_broadcasters"
    /\ arg.fetch = "http_error"
    /\ ret_live = Returned(<<>>)

\* The link value the extractor reads: the first anchor's href when it is not
\* empty (else that anchor's data-href), or without an anchor the data-href of
\* the first div/span that has one.
LinkValue(F) ==
    LET anchors    == {i \in 1..Len(F.elems) : F.elems[i].tag = "a"}
        containers == {i \in 1..Len(F.elems) :
                          /\ F.elems[i].tag \in {"div", "span"}
                          /\ F.elems[i].data_href # None}
    IN  IF anchors # {}
        THEN (IF /\ F.elems[Min(anchors)].href # None
                 /\ F.elems[Min(anchors)].href.s # <<>>
              THEN F.elems[Min(anchors)].href
              ELSE F.elems[Min(anchors)].data_href)
        ELSE IF containers # {} THEN F.elems[Min(containers)].data_href
        ELSE None

\* A link value resolved against the site origin.
RefUrl(v) ==
    IF Len(v.s) > 0 /\ v.s[1] = "/" THEN Str(Origin \o v.s) ELSE v

\* C6: in every record returned by _extract_broadcaster_data, a link value
\* that begins with "/" is stored as "https://www.tango.me" followed by it, and
\* any other link value is stored unchanged.
C6_RelativeLinksResolved ==
    (op = "_extract_broadcaster_data" /\ ret_broadcaster.value # None) =>
        LET v == LinkValue(arg.element)
        IN  v # None =>
              /\ "profile_url" \in DOMAIN ret_broadcaster.value
              /\ (v.s # <<>> /\ v.s[1] = "/")
                    => ret_broadcaster.value.profile_url = Str(Origin \o v.s)
              /\ ~(v.s # <<>> /\ v.s[1] = "/")
                    => ret_broadcaster.value.profile_url = v

\* C6 witness: "/alice" became "https://www.tango.me/alice".
C6_Witness ==
    /\ op = "_extract_broadcaster_data"
    /\ arg.element.elems = <<E_username_alice, E_a_relative>>
    /\ ret_broadcaster.value # None
    /\ ret_broadcaster.value.profile_url = Str(Origin \o T_slash_alice)

\* C9, as stated (and read on the records whose username is not empty):
\* profile_url comes from the anchor's href when the fragment has one,
\* otherwise from the data-href of a div/span container, and is absent only
\* when the fragment offers neither.
C9_AnchorHrefElseDataHref ==
    (/\ op = "_extract_broadcaster_data"
     /\ ret_broadcaster.value # None
     /\ ret_broadcaster.value.username # <<>>) =>
        LET elems      == arg.element.elems
            anchors    == {i \in 1..Len(elems) : elems[i].tag = "a"}
            containers == {i \in 1..Len(elems) :
                              /\ elems[i].tag \in {"div", "span"}
                              /\ elems[i].data_href # None}
        IN  IF /\ anchors # {}
               /\ elems[Min(anchors)].href # None
               /\ elems[Min(anchors)].href.s # <<>>
            THEN /\ "profile_url" \in DOMAIN ret_broadcaster.value
                 /\ ret_broadcaster.value.profile_url = RefUrl(elems[Min(anchors)].href)
            ELSE IF containers # {}
            THEN /\ "profile_url" \in DOMAIN ret_broadcaster.value
                 /\ ret_broadcaster.value.profile_url = RefUrl(elems[Min(containers)].data_href)
            ELSE \/ "profile_url" \notin DOMAIN ret_broadcaster.value
                 \/ ret_broadcaster.value.profile_url = None

\* ------------------------------------------------------------------ properties: profile

\* The stat elements of a profile page, in document order.
Stats(page) == SelectSeq(page, LAMBDA e : MatchesCue(e, StatTags, StatClasses))

HasFollower(e) == contains(lower(e.text), <<"f", "o", "l", "l", "o", "w", "e", "r">>)

HasFollowing(e) ==
    contains(lower(e.text), <<"f", "o", "l", "l", "o", "w", "i", "n", "g">>)

\* The positions of the stat elements that satisfy P.
StatsWith(page, P(_)) == {i \in 1..Len(Stats(page)) : P(Stats(page)[i])}

\* C7, as stated: every stat element whose lower-cased text contains
\* "follower" sets followers, and every one whose text contains "following"
\* sets following, to _extract_number of its text.
C7_ClassifiedByContainment ==
    (op = "get_broadcaster_profile" /\ arg.fetch = "ok") =>
        LET fl == StatsWith(arg.page, HasFollower)
            fg == StatsWith(arg.page, HasFollowing)
        IN  /\ fl # {} => ret_profile.value.followers
                            = _extract_number(Stats(arg.page)[Max(fl)].text).value
            /\ fg # {} => ret_profile.value.following
                            = _extract_number(Stats(arg.page)[Max(fg)].text).value

\* C7, amended: a stat element whose lower-cased text contains "follower" sets
\* followers; one whose text contains "following" and not "follower" sets
\* following; the last such element in document order decides, and a field no
\* element sets stays 0.  "1.5K followers" and "300 following" give 1500, 300.
C7_ClassifiedFollowerFirst ==
    (op = "get_broadcaster_profile" /\ arg.fetch = "ok") =>
        LET fl == StatsWith(arg.page, HasFollower)
            fg == StatsWith(arg.page, LAMBDA e : HasFollowing(e) /\ ~HasFollower(e))
        IN  /\ ret_profile.value.followers
                 = IF fl = {} THEN 0
                   ELSE _extract_number(Stats(arg.page)[Max(fl)].text).value
            /\ ret_profile.value.following
                 = IF fg = {} THEN 0
                   ELSE _extract_number(Stats(arg.page)[Max(fg)].text).value
            /\ arg.page = <<P_followers, P_following>>
                 => ret_profile.value.followers = 1500 /\ ret_profile.value.following = 300

\* C7 witness: the documented example, for bob.
C7_Witness ==
    /\ op = "get_broadcaster_profile"
    /\ arg.username = <<"b", "o", "b">>
    /\ arg.page = <<P_followers, P_following>>
    /\ ret_profile.value.followers = 1500
    /\ ret_profile.value.following = 300

\* C8: on a successful fetch get_broadcaster_profile returns a record with the
\* supplied username; a field with no matching cue on the page holds its
\* default (followers 0, following 0, bio "", profile_image ""), and
\* is_verified is false and last_seen "" whatever the page holds.
C8_ProfileDefaults ==
    (op = "get_broadcaster_profile" /\ arg.fetch = "ok") =>
        /\ ret_profile.kind = "return"
        /\ ret_profile.value # None
        /\ ret_profile.value.username = arg.username
        /\ ret_profile.value.is_verified = FALSE
        /\ ret_profile.value.last_seen = <<>>
        /\ StatsWith(arg.page, HasFollower) = {} => ret_profile.value.followers = 0
        /\ StatsWith(arg.page, HasFollowing) = {} => ret_profile.value.following = 0
        /\ (\A i \in 1..Len(arg.page) :
               ~MatchesCue(arg.page[i], BioTags, BioClasses))
              => ret_profile.value.bio = <<>>
        /\ (\A i \in 1..Len(arg.page) :
               ~MatchesCue(arg.page[i], {"img"}, AvatarClasses))
              => ret_profile.value.profile_image = Str(<<>>)

\* C8 witness: a page with a bio and nothing else; every other field default.
C8_Witness ==
    /\ op = "get_broadcaster_profile"
    /\ arg.fetch = "ok"
    /\ arg.page = <<P_bio, P_p_stat, P_img>>
    /\ ret_profile.value.followers = 0
    /\ ret_profile.value.following = 0
    /\ ret_profile.value.profile_image = Str(<<>>)
    /\ ret_profile.value.bio = <<"h", "i">>

====
